---- MODULE Spec2Model ----
(***************************************************************************)
(* Model of component_group: the ComponentGroup custom derive             *)
(* (component_group_derive) and the operations it generates for a struct  *)
(* of components, run against a specs World.                              *)
(*                                                                         *)
(* A World is a record [next, alive, storage]: the entities allocated so  *)
(* far are 1..next-1, alive is the set of those not destroyed, and        *)
(* storage maps every registered component type to a map from entity to   *)
(* Option<value>.  Option values are sequences: <<>> is None, <<v>> is    *)
(* Some(v).                                                                *)
(***************************************************************************)
EXTENDS Integers, Sequences, FiniteSets, TLC

\* Bounds of the model.
MaxEntities == 2
MaxVal == 2
\* Entities per World when a group is moved between two Worlds.
MaxPerWorld == 1

None == <<>>
Some(v) == <<v>>
IsSome(o) == o # <<>>
Unwrap(o) == o[1]

(***************************************************************************)
(* syn types, as far as the classifier inspects them.                      *)
(***************************************************************************)
NoArguments == [kind |-> "None", colon2_token |-> FALSE, args |-> <<>>]
AngleBracketed(colon2, args) ==
    [kind |-> "AngleBracketed", colon2_token |-> colon2, args |-> args]
PathSegment(ident, arguments) == [ident |-> ident, arguments |-> arguments]
TypePath(qself, leading, segments) ==
    [kind |-> "Path", qself |-> qself, leading_colon |-> leading, segments |-> segments]
GenericType(ty) == [kind |-> "Type", ty |-> ty]
\* A plain named type such as Position.
Named(ident) == TypePath(FALSE, FALSE, <<PathSegment(ident, NoArguments)>>)
\* Option<ty> as users write it.
OptionOf(ty) ==
    TypePath(FALSE, FALSE, <<PathSegment("Option", AngleBracketed(FALSE, <<GenericType(ty)>>))>>)

Position == Named("Position")
Health == Named("Health")
Animation == Named("Animation")
NotInGroup == Named("NotInGroup")

\* The component types registered by new_world().
Registered == {Position, Health, Animation, NotInGroup}

\* NotInGroup is a unit struct; the other components carry data.
ValuesOf(ty) == IF ty = NotInGroup THEN {1} ELSE 1..MaxVal

(***************************************************************************)
(* The field classifier.                                                   *)
(***************************************************************************)
\* inner_option_type looking at the last segment only, whatever precedes it, so that
\* a qualified path such as std::option::Option<T> is taken for Option<T> too.
inner_option_type_last_segment(path) ==
    IF Len(path.segments) >= 1
    THEN LET last == path.segments[Len(path.segments)]
         IN  IF /\ last.arguments.kind = "AngleBracketed"
                /\ last.arguments.colon2_token = FALSE
                /\ last.ident = "Option"
                /\ Len(last.arguments.args) = 1
             THEN LET arg == last.arguments.args[Len(last.arguments.args)]
                  IN  IF arg.kind = "Type" THEN Some(arg.ty) ELSE None
             ELSE None
    ELSE None

\* inner_option_type: Some(inner type) if the path is Option<inner>.
inner_option_type(path) ==
    IF path.leading_colon = FALSE /\ Len(path.segments) = 1
    THEN LET last == path.segments[Len(path.segments)]
         IN  IF /\ last.arguments.kind = "AngleBracketed"
                /\ last.arguments.colon2_token = FALSE
                /\ last.ident = "Option"
                /\ Len(last.arguments.args) = 1
             THEN LET arg == last.arguments.args[Len(last.arguments.args)]
                  IN  IF arg.kind = "Type" THEN Some(arg.ty) ELSE None
             ELSE None
    ELSE None

\* impl From<&Field> for ComponentField
ComponentField(field) ==
    LET inner == IF field.ty.kind = "Path" /\ field.ty.qself = FALSE
                 THEN inner_option_type(field.ty)
                 ELSE None
    IN  [ident |-> field.ident,
         ty |-> IF IsSome(inner) THEN Unwrap(inner) ELSE field.ty,
         is_optional |-> IsSome(inner)]

Field(ident, ty) == [ident |-> ident, ty |-> ty]

\* struct PlayerComponents of the test suite.
PlayerComponents ==
    <<Field("position", Position), Field("health", Health),
      Field("animation", OptionOf(Animation))>>
\* The same group with the optional field declared first.
AnimatedFirst ==
    <<Field("animation", OptionOf(Animation)), Field("position", Position),
      Field("health", Health)>>

Structs == {PlayerComponents, AnimatedFirst}

\* A group whose fields are all optional.
OptionalOnly ==
    <<Field("health", OptionOf(Health)), Field("animation", OptionOf(Animation))>>

\* impl_component_group: the classified fields, in declaration order.
impl_component_group(decl) == [i \in 1..Len(decl) |-> ComponentField(decl[i])]

\* The item the derive is applied to: data is "Struct", "Enum" or "Union", shape is
\* the kind of its fields ("Named", "Unnamed" or "Unit"), named its members.
DeriveInput(data, shape, named) == [data |-> data, shape |-> shape, named |-> named]
NamedStruct(decl) == DeriveInput("Struct", "Named", decl)

\* The methods of the impl that impl_component_group emits.
ImplMethods == {"first_from_world", "from_world", "create", "update", "remove"}

\* error: a compile error and nothing else.
error(message) == [error |-> Some(message), methods |-> {}, fields |-> <<>>]

\* derive_component_group without the check for an empty field list.
derive_component_group_allow_empty(input) ==
    IF input.data = "Struct" /\ input.shape = "Named"
    THEN [error |-> None, methods |-> ImplMethods,
          fields |-> impl_component_group(input.named)]
    ELSE error("Only structs with named fields are supported")

\* derive_component_group: the impl for a struct with named fields, else an error.
derive_component_group(input) ==
    IF input.data = "Struct" /\ input.shape = "Named"
    THEN IF input.named = <<>>
         THEN error("struct must have at least one field to derive ComponentGroup")
         ELSE [error |-> None, methods |-> ImplMethods,
               fields |-> impl_component_group(input.named)]
    ELSE error("Only structs with named fields are supported")

(***************************************************************************)
(* The items and field types the derive is checked on.                     *)
(***************************************************************************)
\* Generic arguments that are not types: Option<'a>, Option<1>, Option<Item = T>.
Lifetime == [kind |-> "Lifetime", ty |-> Named("'a")]
Const == [kind |-> "Const", ty |-> Named("1")]
Binding(ty) == [kind |-> "Binding", ty |-> ty]

\* Option(T), the arguments of the Fn-sugar.
Parenthesized(args) == [kind |-> "Parenthesized", colon2_token |-> FALSE, args |-> args]

\* A type that is not a Type::Path (&T, (T), [T; 1], *const T, (T,)) around the path elem.
OtherType(kind, elem) ==
    [kind |-> kind, qself |-> FALSE, leading_colon |-> FALSE, segments |-> elem.segments]

ArgLists ==
    {<<>>,
     <<GenericType(Animation)>>,
     <<GenericType(OptionOf(Animation))>>,
     <<Lifetime>>,
     <<Const>>,
     <<Binding(Animation)>>,
     <<GenericType(Animation), GenericType(Health)>>,
     <<Lifetime, GenericType(Animation)>>}

ArgumentsOf ==
    {NoArguments, Parenthesized(<<GenericType(Animation)>>)}
        \cup {AngleBracketed(c, args) : c \in BOOLEAN, args \in ArgLists}

LastIdents == {"Option", "option", "Maybe"}

\* What may precede the last segment: nothing, a leading ::, std::option::, and a
\* qualified self type, <T as Trait>::X or <T>::X (which parses with a leading colon).
Prefixes ==
    {[qself |-> FALSE, leading |-> FALSE, segments |-> <<>>],
     [qself |-> FALSE, leading |-> TRUE, segments |-> <<>>],
     [qself |-> FALSE, leading |-> FALSE,
      segments |-> <<PathSegment("std", NoArguments), PathSegment("option", NoArguments)>>],
     [qself |-> FALSE, leading |-> TRUE,
      segments |-> <<PathSegment("std", NoArguments), PathSegment("option", NoArguments)>>],
     [qself |-> TRUE, leading |-> FALSE, segments |-> <<PathSegment("Trait", NoArguments)>>],
     [qself |-> TRUE, leading |-> TRUE, segments |-> <<>>]}

PathTypes ==
    {TypePath(p.qself, p.leading, Append(p.segments, PathSegment(id, arguments))) :
        p \in Prefixes, id \in LastIdents, arguments \in ArgumentsOf}

OtherTypes ==
    {OtherType(kind, elem) :
        kind \in {"Reference", "Paren", "Array", "Ptr", "Tuple"},
        elem \in {Animation, OptionOf(Animation)}}

FieldTypes == PathTypes \cup OtherTypes

\* The items of tests/compile-fail/unsupported_types.rs, a tuple struct and a union.
Unsupported ==
    {DeriveInput("Enum", "Variants", <<Field("Position", Position), Field("Health", Health)>>),
     DeriveInput("Enum", "Variants", <<>>),
     DeriveInput("Struct", "Unit", <<>>),
     DeriveInput("Struct", "Unnamed", <<Field("0", Position)>>),
     DeriveInput("Struct", "Unnamed", <<>>),
     DeriveInput("Union", "Named", <<Field("position", Position)>>),
     NamedStruct(<<>>)}

DeriveInputs ==
    {NamedStruct(<<Field("animation", ty)>>) : ty \in FieldTypes}
        \cup {NamedStruct(<<Field("position", Position), Field("animation", ty)>>) :
                 ty \in OtherTypes \cup {OptionOf(Animation), Animation}}
        \cup {NamedStruct(decl) : decl \in Structs}
        \cup Unsupported

\* Before the derive has run there is neither an impl nor an error.
NotDerived == [error |-> None, methods |-> {}, fields |-> <<>>]

(***************************************************************************)
(* The World collaborator (specs).                                        *)
(***************************************************************************)
Entities == 1..MaxEntities

new_world ==
    [next |-> 1, alive |-> {},
     storage |-> [ty \in Registered |-> [e \in Entities |-> None]]]

\* ReadStorage::get(entity).cloned()
get(w, ty, e) == IF e \in w.alive THEN w.storage[ty][e] ELSE None

\* insert that stores the value before it finds that the entity is not alive.
insert_unchecked(w, ty, e, v) == [w EXCEPT !.storage[ty][e] = Some(v)]

\* WriteStorage::insert(entity, value): Err on an entity that is not alive.
insert_ok(w, e) == e \in w.alive
insert(w, ty, e, v) ==
    IF insert_ok(w, e)
    THEN [w EXCEPT !.storage[ty][e] = Some(v)]
    ELSE w

\* remove that empties the whole storage of the component type.
remove_component_clear(w, ty, e) ==
    IF e \in w.alive THEN [w EXCEPT !.storage[ty] = [x \in Entities |-> None]] ELSE w

\* WriteStorage::remove(entity): the world afterwards (the value removed is get).
remove_component(w, ty, e) ==
    IF e \in w.alive THEN [w EXCEPT !.storage[ty][e] = None] ELSE w

\* create_entity that hands out the same entity again instead of allocating one.
create_entity_same(w) == [w EXCEPT !.alive = w.alive \cup {w.next}]

\* World::create_entity(): allocates the next entity, alive, with no component.
create_entity(w) == [w EXCEPT !.next = w.next + 1, !.alive = w.alive \cup {w.next}]

\* The entity has been destroyed: it is no longer alive and has no component.
delete_entity(w, e) ==
    [w EXCEPT !.alive = w.alive \ {e},
              !.storage = [ty \in Registered |->
                             [x \in Entities |-> IF x = e THEN None ELSE w.storage[ty][x]]]]

(***************************************************************************)
(* Records of a group: one value per field, an Option for an optional one. *)
(***************************************************************************)
FieldValues(f) ==
    IF f.is_optional THEN {None} \cup {Some(v) : v \in ValuesOf(f.ty)}
    ELSE ValuesOf(f.ty)

Idents(fields) == {fields[i].ident : i \in 1..Len(fields)}
FieldOf(fields, id) == CHOOSE f \in {fields[i] : i \in 1..Len(fields)} : f.ident = id

\* Every record of the group: the fields from position i on.
RECURSIVE RecordsFrom(_, _)
RecordsFrom(fields, i) ==
    IF i > Len(fields) THEN {<<>>}
    ELSE {(fields[i].ident :> v) @@ r :
            v \in FieldValues(fields[i]), r \in RecordsFrom(fields, i + 1)}
Records(fields) == RecordsFrom(fields, 1)

NoRecord == <<>>
NoEntity == 0

\* What a call gave back: kind is "Entity" (create), "Record" (from_world, remove),
\* "Some" / "None" (first_from_world), "Ok" / "Err" (update), "Panic" (from_world,
\* remove), or "Unit" (a direct storage access).
Result(kind, entity, rec, msg) == [kind |-> kind, entity |-> entity, rec |-> rec, msg |-> msg]

\* One storage call made by an operation.
Call(op, ty) == [op |-> op, ty |-> ty]

(***************************************************************************)
(* The generated operations.  Each is the composition, in field order, of  *)
(* one fragment per field.                                                 *)
(***************************************************************************)
\* Fields by position.
Positions(fields) == 1..Len(fields)

\* joinables with every storage joined through maybe(): no field excludes an entity.
joinables_all_maybe(f, w, e) == Some(get(w, f.ty, e))

\* joinables with the optional storages joined as hard filters, like the required ones.
joinables_all_required(f, w, e) ==
    IF ~IsSome(get(w, f.ty, e)) THEN None
    ELSE IF f.is_optional THEN Some(get(w, f.ty, e))
    ELSE Some(Unwrap(get(w, f.ty, e)))

\* joinables: the join's item for one field at entity e, Some(item), or None when
\* the field excludes e.  A required field joins on &storage, an optional one on
\* storage.maybe(), whose item is itself an Option.
joinables(f, w, e) ==
    IF f.is_optional THEN Some(get(w, f.ty, e))
    ELSE IF IsSome(get(w, f.ty, e)) THEN Some(Unwrap(get(w, f.ty, e))) ELSE None

\* clones that does not copy the value of an optional field.
clones_drop_optional(f, item) == IF f.is_optional THEN None ELSE item

\* clones: Clone::clone(item) for a required field, item.cloned() for an optional one.
clones(f, item) == item

\* (&entities, joinables...).join() yields at e.
Joins(fields, w, e) ==
    e \in w.alive /\ \A i \in Positions(fields) : IsSome(joinables(fields[i], w, e))

\* .join().next(): the first entity from e on, in the join's order, or NoEntity.
RECURSIVE JoinNext(_, _, _)
JoinNext(fields, w, e) ==
    IF e > MaxEntities THEN NoEntity
    ELSE IF Joins(fields, w, e) THEN e
    ELSE JoinNext(fields, w, e + 1)

first_from_world(fields, w) ==
    LET e == JoinNext(fields, w, 1)
    IN  IF e = NoEntity THEN Result("None", NoEntity, NoRecord, <<>>)
        ELSE Result("Some", e,
                    [id \in Idents(fields) |->
                        LET f == FieldOf(fields, id)
                        IN  clones(f, Unwrap(joinables(f, w, e)))],
                    <<>>)

\* The message of expect() for a missing required component.
ExpectMessage(ty) == <<"expected a ", ty, " component to be present">>

\* reads of from_world with unwrap_or_default() in place of expect().
from_world_reads_unchecked(f, w, e) ==
    IF f.is_optional THEN [ok |-> TRUE, value |-> get(w, f.ty, e), msg |-> <<>>]
    ELSE [ok |-> TRUE, msg |-> <<>>,
          value |-> IF IsSome(get(w, f.ty, e)) THEN Unwrap(get(w, f.ty, e)) ELSE 1]

\* reads of from_world that never fetch an optional component.
from_world_reads_no_optional(f, w, e) ==
    IF f.is_optional THEN [ok |-> TRUE, value |-> None, msg |-> <<>>]
    ELSE IF IsSome(get(w, f.ty, e))
         THEN [ok |-> TRUE, value |-> Unwrap(get(w, f.ty, e)), msg |-> <<>>]
         ELSE [ok |-> FALSE, value |-> None, msg |-> ExpectMessage(f.ty)]

\* reads of from_world: the value read for one field, or the panic of expect().
from_world_reads(f, w, e) ==
    IF f.is_optional THEN [ok |-> TRUE, value |-> get(w, f.ty, e), msg |-> <<>>]
    ELSE IF IsSome(get(w, f.ty, e))
         THEN [ok |-> TRUE, value |-> Unwrap(get(w, f.ty, e)), msg |-> <<>>]
         ELSE [ok |-> FALSE, value |-> None, msg |-> ExpectMessage(f.ty)]

\* from_world: the struct literal evaluates the reads in field order.
RECURSIVE ReadFrom(_, _, _, _, _)
ReadFrom(fields, w, e, i, rec) ==
    IF i > Len(fields) THEN Result("Record", e, rec, <<>>)
    ELSE LET read == from_world_reads(fields[i], w, e)
         IN  IF read.ok
             THEN ReadFrom(fields, w, e, i + 1, (fields[i].ident :> read.value) @@ rec)
             ELSE Result("Panic", e, NoRecord, read.msg)

from_world(fields, e, w) == ReadFrom(fields, w, e, 1, <<>>)

\* with_comp that never attaches an optional field.
with_comp_skip_optional(f, rec, w, e) ==
    IF f.is_optional THEN w ELSE insert(w, f.ty, e, rec[f.ident])

\* with_comp that attaches a default value for an optional field that is None.
with_comp_default(f, rec, w, e) ==
    IF f.is_optional
    THEN insert(w, f.ty, e, IF IsSome(rec[f.ident]) THEN Unwrap(rec[f.ident]) ELSE 1)
    ELSE insert(w, f.ty, e, rec[f.ident])

\* with_comp: the builder after one field.
with_comp(f, rec, w, e) ==
    IF f.is_optional
    THEN IF IsSome(rec[f.ident]) THEN insert(w, f.ty, e, Unwrap(rec[f.ident])) ELSE w
    ELSE insert(w, f.ty, e, rec[f.ident])

RECURSIVE WithFrom(_, _, _, _, _)
WithFrom(fields, rec, w, e, i) ==
    IF i > Len(fields) THEN w
    ELSE WithFrom(fields, rec, with_comp(fields[i], rec, w, e), e, i + 1)

\* create: world.create_entity(), with_comp for every field in order, build().
create(fields, rec, w) ==
    [world |-> WithFrom(fields, rec, create_entity(w), w.next, 1),
     res |-> Result("Entity", w.next, NoRecord, <<>>),
     calls |-> <<>>]

\* updates that insert a required component only where none is present yet.
updates_keep_existing(f, rec, w, e) ==
    IF f.is_optional
    THEN IF IsSome(rec[f.ident])
         THEN [world |-> insert(w, f.ty, e, Unwrap(rec[f.ident])), ok |-> insert_ok(w, e),
               call |-> Call("insert", f.ty)]
         ELSE [world |-> remove_component(w, f.ty, e), ok |-> TRUE,
               call |-> Call("remove", f.ty)]
    ELSE [world |-> IF IsSome(get(w, f.ty, e)) THEN w ELSE insert(w, f.ty, e, rec[f.ident]),
          ok |-> insert_ok(w, e), call |-> Call("insert", f.ty)]

\* updates that leave the component alone when an optional field is None.
updates_skip_none(f, rec, w, e) ==
    IF f.is_optional /\ ~IsSome(rec[f.ident])
    THEN [world |-> w, ok |-> TRUE, call |-> Call("remove", f.ty)]
    ELSE [world |-> insert(w, f.ty, e, IF f.is_optional THEN Unwrap(rec[f.ident])
                                         ELSE rec[f.ident]),
          ok |-> insert_ok(w, e), call |-> Call("insert", f.ty)]

\* updates that drop the result of insert instead of propagating it.
updates_ignore_error(f, rec, w, e) ==
    IF f.is_optional /\ ~IsSome(rec[f.ident])
    THEN [world |-> remove_component(w, f.ty, e), ok |-> TRUE, call |-> Call("remove", f.ty)]
    ELSE [world |-> insert(w, f.ty, e, IF f.is_optional THEN Unwrap(rec[f.ident])
                                         ELSE rec[f.ident]),
          ok |-> TRUE, call |-> Call("insert", f.ty)]

\* updates that treat the removal of a component that is not there as a failure.
updates_none_is_error(f, rec, w, e) ==
    IF f.is_optional
    THEN IF IsSome(rec[f.ident])
         THEN [world |-> insert(w, f.ty, e, Unwrap(rec[f.ident])), ok |-> insert_ok(w, e),
               call |-> Call("insert", f.ty)]
         ELSE [world |-> remove_component(w, f.ty, e), ok |-> IsSome(get(w, f.ty, e)),
               call |-> Call("remove", f.ty)]
    ELSE [world |-> insert(w, f.ty, e, rec[f.ident]), ok |-> insert_ok(w, e),
          call |-> Call("insert", f.ty)]

\* updates that propagate the failure of a required field's insert only.
updates_optional_swallow(f, rec, w, e) ==
    IF f.is_optional
    THEN IF IsSome(rec[f.ident])
         THEN [world |-> insert(w, f.ty, e, Unwrap(rec[f.ident])), ok |-> TRUE,
               call |-> Call("insert", f.ty)]
         ELSE [world |-> remove_component(w, f.ty, e), ok |-> TRUE,
               call |-> Call("remove", f.ty)]
    ELSE [world |-> insert(w, f.ty, e, rec[f.ident]), ok |-> insert_ok(w, e),
          call |-> Call("insert", f.ty)]

\* updates: one field of update; ok is FALSE when its insert failed.
updates(f, rec, w, e) ==
    IF f.is_optional
    THEN IF IsSome(rec[f.ident])
         THEN [world |-> insert(w, f.ty, e, Unwrap(rec[f.ident])), ok |-> insert_ok(w, e),
               call |-> Call("insert", f.ty)]
         ELSE [world |-> remove_component(w, f.ty, e), ok |-> TRUE,
               call |-> Call("remove", f.ty)]
    ELSE [world |-> insert(w, f.ty, e, rec[f.ident]), ok |-> insert_ok(w, e),
          call |-> Call("insert", f.ty)]

\* update: the updates in field order; ? returns at the first failed insert.
RECURSIVE UpdateFrom(_, _, _, _, _, _)
UpdateFrom(fields, rec, e, w, i, calls) ==
    IF i > Len(fields)
    THEN [world |-> w, res |-> Result("Ok", e, NoRecord, <<>>), calls |-> calls]
    ELSE LET u == updates(fields[i], rec, w, e)
         IN  IF u.ok
             THEN UpdateFrom(fields, rec, e, u.world, i + 1, Append(calls, u.call))
             ELSE [world |-> u.world, res |-> Result("Err", e, NoRecord, <<>>),
                   calls |-> Append(calls, u.call)]

\* update that first strips the entity of every component, then inserts the group.
update_recreate(fields, rec, e, w) ==
    UpdateFrom(fields, rec, e,
               [w EXCEPT !.storage = [ty \in Registered |->
                    [x \in Entities |-> IF x = e THEN None ELSE w.storage[ty][x]]]],
               1, <<>>)

\* update that attempts every field and reports a failure at the end.
RECURSIVE UpdateAllFrom(_, _, _, _, _, _, _)
UpdateAllFrom(fields, rec, e, w, i, calls, ok) ==
    IF i > Len(fields)
    THEN [world |-> w, res |-> Result(IF ok THEN "Ok" ELSE "Err", e, NoRecord, <<>>),
          calls |-> calls]
    ELSE LET u == updates(fields[i], rec, w, e)
         IN  UpdateAllFrom(fields, rec, e, u.world, i + 1, Append(calls, u.call), ok /\ u.ok)
update_attempt_all(fields, rec, e, w) == UpdateAllFrom(fields, rec, e, w, 1, <<>>, TRUE)

update(fields, rec, e, w) == UpdateFrom(fields, rec, e, w, 1, <<>>)

\* reads of remove that fetch the component and leave it in storage.
remove_reads_keep(f, w, e) ==
    IF f.is_optional
    THEN [world |-> w, ok |-> TRUE, value |-> get(w, f.ty, e), msg |-> <<>>]
    ELSE IF IsSome(get(w, f.ty, e))
         THEN [world |-> w, ok |-> TRUE, value |-> Unwrap(get(w, f.ty, e)), msg |-> <<>>]
         ELSE [world |-> w, ok |-> FALSE, value |-> None, msg |-> ExpectMessage(f.ty)]

\* reads of remove with unwrap_or_default() in place of expect().
remove_reads_unchecked(f, w, e) ==
    IF f.is_optional
    THEN [world |-> remove_component(w, f.ty, e), ok |-> TRUE,
          value |-> get(w, f.ty, e), msg |-> <<>>]
    ELSE [world |-> remove_component(w, f.ty, e), ok |-> TRUE, msg |-> <<>>,
          value |-> IF IsSome(get(w, f.ty, e)) THEN Unwrap(get(w, f.ty, e)) ELSE 1]

\* reads of remove with expect() on the optional fields too.
remove_reads_expect_all(f, w, e) ==
    IF IsSome(get(w, f.ty, e))
    THEN [world |-> remove_component(w, f.ty, e), ok |-> TRUE,
          value |-> IF f.is_optional THEN get(w, f.ty, e) ELSE Unwrap(get(w, f.ty, e)),
          msg |-> <<>>]
    ELSE [world |-> remove_component(w, f.ty, e), ok |-> FALSE,
          value |-> None, msg |-> ExpectMessage(f.ty)]

\* reads of remove that detach an optional component without handing its value back.
remove_reads_forget_optional(f, w, e) ==
    IF f.is_optional
    THEN [world |-> remove_component(w, f.ty, e), ok |-> TRUE, value |-> None, msg |-> <<>>]
    ELSE IF IsSome(get(w, f.ty, e))
         THEN [world |-> remove_component(w, f.ty, e), ok |-> TRUE,
               value |-> Unwrap(get(w, f.ty, e)), msg |-> <<>>]
         ELSE [world |-> remove_component(w, f.ty, e), ok |-> FALSE,
               value |-> None, msg |-> ExpectMessage(f.ty)]

\* reads of remove: the value removed for one field, or the panic of expect().
remove_reads(f, w, e) ==
    IF f.is_optional
    THEN [world |-> remove_component(w, f.ty, e), ok |-> TRUE,
          value |-> get(w, f.ty, e), msg |-> <<>>]
    ELSE IF IsSome(get(w, f.ty, e))
         THEN [world |-> remove_component(w, f.ty, e), ok |-> TRUE,
               value |-> Unwrap(get(w, f.ty, e)), msg |-> <<>>]
         ELSE [world |-> remove_component(w, f.ty, e), ok |-> FALSE,
               value |-> None, msg |-> ExpectMessage(f.ty)]

\* remove: the struct literal evaluates the reads in field order.
RECURSIVE RemoveFrom(_, _, _, _, _, _)
RemoveFrom(fields, e, w, i, rec, calls) ==
    IF i > Len(fields)
    THEN [world |-> w, res |-> Result("Record", e, rec, <<>>), calls |-> calls]
    ELSE LET read == remove_reads(fields[i], w, e)
             done == Append(calls, Call("remove", fields[i].ty))
         IN  IF read.ok
             THEN RemoveFrom(fields, e, read.world, i + 1,
                             (fields[i].ident :> read.value) @@ rec, done)
             ELSE [world |-> read.world, res |-> Result("Panic", e, NoRecord, read.msg),
                   calls |-> done]

\* remove that detaches every component of the entity, not only the group's.
remove_strip_all(fields, e, w) ==
    LET out == RemoveFrom(fields, e, w, 1, <<>>, <<>>)
    IN  [out EXCEPT !.world = [out.world EXCEPT !.storage =
            [ty \in Registered |->
                [x \in Entities |-> IF x = e THEN None ELSE out.world.storage[ty][x]]]]]

\* remove that checks every required component before it detaches anything.
remove_all_or_nothing(fields, e, w) ==
    IF from_world(fields, e, w).kind = "Panic"
    THEN [world |-> w, res |-> from_world(fields, e, w), calls |-> <<>>]
    ELSE RemoveFrom(fields, e, w, 1, <<>>, <<>>)

remove(fields, e, w) == RemoveFrom(fields, e, w, 1, <<>>, <<>>)

(***************************************************************************)
(* The storage handles an operation fetches, in one world.system_data()    *)
(* call, before it does anything else.                                     *)
(***************************************************************************)
EntitiesHandle == Call("Entities", Named("Entities"))
ReadStorage(ty) == Call("ReadStorage", ty)
WriteStorage(ty) == Call("WriteStorage", ty)

\* The tuple type given to world.system_data by each generated method.
system_data(op, fields) ==
    CASE op = "first_from_world" ->
            <<EntitiesHandle>> \o [i \in Positions(fields) |-> ReadStorage(fields[i].ty)]
      [] op = "from_world" -> [i \in Positions(fields) |-> ReadStorage(fields[i].ty)]
      [] op = "update" -> [i \in Positions(fields) |-> WriteStorage(fields[i].ty)]
      [] op = "remove" -> [i \in Positions(fields) |-> WriteStorage(fields[i].ty)]

\* Structs of one or two fields, the payload types of which may coincide.
HandleTypes ==
    {Position, Health, Animation} \cup {OptionOf(ty) : ty \in {Position, Health, Animation}}
HandleStructs ==
    {<<Field("a", ty)>> : ty \in HandleTypes}
        \cup {<<Field("a", ta), Field("b", tb)>> : ta \in HandleTypes, tb \in HandleTypes}

(***************************************************************************)
(* The state machine: a program that derives ComponentGroup for one struct *)
(* and then calls the operations and the World directly.                  *)
(***************************************************************************)
VARIABLES
    input,      \* the item ComponentGroup is derived for
    derived,    \* what the derive produced for it
    fields,     \* the classified fields of the deriving struct
    world,      \* the World
    world2,     \* a second World, which groups are moved to
    last        \* the last call: its name, arguments, result and storage calls

vars == <<input, derived, fields, world, world2, last>>

\* What no operation of the group changes.
program == <<input, derived, fields>>

Last(op, e, rec, res, calls) ==
    [op |-> op, entity |-> e, rec |-> rec, res |-> res, calls |-> calls]

\* A direct access to the World, outside the group's operations.
Direct(op) == Last(op, NoEntity, NoRecord, Result("Unit", NoEntity, NoRecord, <<>>), <<>>)

Allocated == 1..(world.next - 1)

Init ==
    /\ input \in {NamedStruct(decl) : decl \in Structs}
    /\ derived = derive_component_group(input)
    /\ fields = derived.fields
    /\ world = new_world
    /\ world2 = new_world
    /\ last = Direct("new_world")

Create ==
    \E r \in Records(fields) :
        /\ world.next <= MaxEntities
        /\ LET out == create(fields, r, world)
           IN  /\ world' = out.world
               /\ last' = Last("create", NoEntity, r, out.res, out.calls)
        /\ UNCHANGED <<program, world2>>

\* first_from_world makes a new join and takes its first item.
FirstFromWorld ==
    /\ last' = Last("first_from_world", NoEntity, NoRecord,
                    first_from_world(fields, world), <<>>)
    /\ UNCHANGED <<program, world, world2>>

\* from_world reading through write handles, taking each component out of its storage.
FromWorld_take ==
    \E e \in Allocated :
        /\ world' = remove(fields, e, world).world
        /\ last' = Last("from_world", e, NoRecord, from_world(fields, e, world), <<>>)
        /\ UNCHANGED <<program, world2>>

FromWorld ==
    \E e \in Allocated :
        /\ last' = Last("from_world", e, NoRecord, from_world(fields, e, world), <<>>)
        /\ UNCHANGED <<program, world, world2>>

Update ==
    \E e \in Allocated, r \in Records(fields) :
        /\ LET out == update(fields, r, e, world)
           IN  /\ world' = out.world
               /\ last' = Last("update", e, r, out.res, out.calls)
        /\ UNCHANGED <<program, world2>>

Remove ==
    \E e \in Allocated :
        /\ LET out == remove(fields, e, world)
           IN  /\ world' = out.world
               /\ last' = Last("remove", e, NoRecord, out.res, out.calls)
        /\ UNCHANGED <<program, world2>>

\* The caller inserts a component directly into its storage.
StorageInsert ==
    \E e \in world.alive, ty \in Registered, v \in 1..MaxVal :
        /\ v \in ValuesOf(ty)
        /\ world' = insert(world, ty, e, v)
        /\ last' = Direct("insert")
        /\ UNCHANGED <<program, world2>>

\* The caller removes a component that is present directly from its storage.
StorageRemove ==
    \E e \in world.alive, ty \in Registered :
        /\ IsSome(get(world, ty, e))
        /\ world' = remove_component(world, ty, e)
        /\ last' = Direct("remove_component")
        /\ UNCHANGED <<program, world2>>

\* An entity is destroyed.
DeleteEntity ==
    \E e \in world.alive :
        /\ world' = delete_entity(world, e)
        /\ last' = Direct("delete_entity")
        /\ UNCHANGED <<program, world2>>

Next ==
    \/ Create
    \/ FirstFromWorld
    \/ FromWorld
    \/ Update
    \/ Remove
    \/ StorageInsert
    \/ StorageRemove
    \/ DeleteEntity

Spec == Init /\ [][Next]_vars

(***************************************************************************)
(* The same program, which may also call first_from_world a second time    *)
(* right after the first and keep both results.                            *)
(***************************************************************************)
\* The second call going on with the join of the first call, after the entity
\* that call returned.
FirstFromWorldAgain_resume ==
    /\ last.op = "first_from_world"
    /\ LET seen == IF last.res.kind = "Some" THEN 1..last.res.entity ELSE {}
       IN  last' = Last("first_from_world_again", last.res.entity, last.res.rec,
                        first_from_world(fields, [world EXCEPT !.alive = @ \ seen]), <<>>)
    /\ UNCHANGED <<program, world, world2>>

\* first_from_world(&world) once more: entity and rec of last keep what the first
\* call returned, res is what the second call returns.
FirstFromWorldAgain ==
    /\ last.op = "first_from_world"
    /\ last' = Last("first_from_world_again", last.res.entity, last.res.rec,
                    first_from_world(fields, world), <<>>)
    /\ UNCHANGED <<program, world, world2>>

NextRepeat ==
    \/ Next
    \/ FirstFromWorldAgain

SpecRepeat == Init /\ [][NextRepeat]_vars

(***************************************************************************)
(* Moving a group between Worlds: the group of an entity of world is read   *)
(* and created in world2, and both Worlds are modified before and after.   *)
(***************************************************************************)
CreateIn1 ==
    \E r \in Records(fields) :
        /\ world.next <= MaxPerWorld
        /\ LET out == create(fields, r, world)
           IN  /\ world' = out.world
               /\ last' = Last("world.create", NoEntity, NoRecord, out.res, <<>>)
        /\ UNCHANGED <<program, world2>>

InsertIn1 ==
    \E e \in world.alive, ty \in Registered, v \in 1..MaxVal :
        /\ v \in ValuesOf(ty)
        /\ world' = insert(world, ty, e, v)
        /\ last' = Direct("world.insert")
        /\ UNCHANGED <<program, world2>>

RemoveIn1 ==
    \E e \in world.alive, ty \in Registered :
        /\ IsSome(get(world, ty, e))
        /\ world' = remove_component(world, ty, e)
        /\ last' = Direct("world.remove_component")
        /\ UNCHANGED <<program, world2>>

UpdateIn1 ==
    \E e \in world.alive, r \in Records(fields) :
        /\ LET out == update(fields, r, e, world)
           IN  /\ world' = out.world
               /\ last' = Last("world.update", e, NoRecord, out.res, <<>>)
        /\ UNCHANGED <<program, world2>>

\* MoveLoaded with the group taken out of world by remove.
MoveLoaded_take ==
    \E e \in world.alive :
        /\ world2.next <= MaxPerWorld
        /\ LET taken == remove(fields, e, world)
           IN  /\ taken.res.kind = "Record"
               /\ world' = taken.world
               /\ LET out == create(fields, taken.res.rec, world2)
                  IN  /\ world2' = out.world
                      /\ last' = Last("move", e, NoRecord, out.res, <<>>)
        /\ UNCHANGED program

\* from_world(entity, &world), then create(&mut world2) on the record.
MoveLoaded ==
    \E e \in world.alive :
        /\ world2.next <= MaxPerWorld
        /\ LET loaded == from_world(fields, e, world)
           IN  /\ loaded.kind = "Record"
               /\ LET out == create(fields, loaded.rec, world2)
                  IN  /\ world2' = out.world
                      /\ last' = Last("move", e, NoRecord, out.res, <<>>)
        /\ UNCHANGED <<program, world>>

\* first_from_world(&world).unwrap(), then create(&mut world2) on the record.
MoveFirst ==
    /\ world2.next <= MaxPerWorld
    /\ LET found == first_from_world(fields, world)
       IN  /\ found.kind = "Some"
           /\ LET out == create(fields, found.rec, world2)
              IN  /\ world2' = out.world
                  /\ last' = Last("move", found.entity, NoRecord, out.res, <<>>)
    /\ UNCHANGED <<program, world>>

InsertIn2 ==
    \E e \in world2.alive, ty \in Registered, v \in 1..MaxVal :
        /\ v \in ValuesOf(ty)
        /\ world2' = insert(world2, ty, e, v)
        /\ last' = Direct("world2.insert")
        /\ UNCHANGED <<program, world>>

RemoveIn2 ==
    \E e \in world2.alive, ty \in Registered :
        /\ IsSome(get(world2, ty, e))
        /\ world2' = remove_component(world2, ty, e)
        /\ last' = Direct("world2.remove_component")
        /\ UNCHANGED <<program, world>>

UpdateIn2 ==
    \E e \in world2.alive, r \in Records(fields) :
        /\ LET out == update(fields, r, e, world2)
           IN  /\ world2' = out.world
               /\ last' = Last("world2.update", e, NoRecord, out.res, <<>>)
        /\ UNCHANGED <<program, world>>

NextMove ==
    \/ CreateIn1
    \/ InsertIn1
    \/ RemoveIn1
    \/ UpdateIn1
    \/ MoveLoaded
    \/ MoveFirst
    \/ InsertIn2
    \/ RemoveIn2
    \/ UpdateIn2

SpecMove == Init /\ [][NextMove]_vars

(***************************************************************************)
(* The same program for a group that starts with an optional field, all    *)
(* of its fields being optional or not.                                    *)
(***************************************************************************)
InitOptional ==
    /\ input \in {NamedStruct(OptionalOnly), NamedStruct(AnimatedFirst)}
    /\ derived = derive_component_group(input)
    /\ fields = derived.fields
    /\ world = new_world
    /\ world2 = new_world
    /\ last = Direct("new_world")

SpecOptional == InitOptional /\ [][Next]_vars

(***************************************************************************)
(* The handles fetched by the operations of any struct of HandleStructs.   *)
(***************************************************************************)
InitHandles ==
    /\ input \in {NamedStruct(decl) : decl \in HandleStructs}
    /\ derived = derive_component_group(input)
    /\ fields = derived.fields
    /\ world = new_world
    /\ world2 = new_world
    /\ last = Direct("new_world")

\* An operation is called and fetches its handles.
SystemData ==
    \E op \in {"first_from_world", "from_world", "update", "remove"} :
        /\ last' = Last(op, NoEntity, NoRecord, Result("Unit", NoEntity, NoRecord, <<>>),
                        system_data(op, fields))
        /\ UNCHANGED <<program, world, world2>>

NextHandles == SystemData

SpecHandles == InitHandles /\ [][NextHandles]_vars

(***************************************************************************)
(* The derive on its own: an item is parsed, then the derive runs on it.   *)
(***************************************************************************)
InitDerive ==
    /\ input \in DeriveInputs
    /\ derived = NotDerived
    /\ fields = <<>>
    /\ world = new_world
    /\ world2 = new_world
    /\ last = Direct("parse")

Derive ==
    /\ last.op = "parse"
    /\ derived' = derive_component_group(input)
    /\ fields' = derived'.fields
    /\ last' = Direct("derive")
    /\ UNCHANGED <<input, world, world2>>

NextDerive == Derive

SpecDerive == InitDerive /\ [][NextDerive]_vars

(***************************************************************************)
(* Vocabulary of the properties: storage read directly, not through the   *)
(* operations.                                                             *)
(***************************************************************************)
Required(fs) == {i \in Positions(fs) : ~fs[i].is_optional}
Optional(fs) == {i \in Positions(fs) : fs[i].is_optional}
SchemaTypes(fs) == {fs[i].ty : i \in Positions(fs)}

\* The component of type ty stored for entity e, as an Option.
Stored(w, ty, e) == w.storage[ty][e]

\* Entity e is alive and carries the component of every required field.
Qualifies(w, e) ==
    e \in w.alive /\ \A i \in Required(fields) : Stored(w, fields[i].ty, e) # None

\* The value field i of a record stands for in storage, as an Option.
AsStored(f, v) == IF f.is_optional THEN v ELSE Some(v)

\* C1: round trip: after create(r, world), from_world on the new entity returns
\* a record equal to r.
C1_CreateLoadRoundTrip ==
    last.op = "create" =>
        from_world(fields, last.res.entity, world)
            = Result("Record", last.res.entity, last.rec, <<>>)

C1_Witness ==
    /\ last.op = "create"
    /\ last.res.entity = 2
    /\ \E i \in Optional(fields) : last.rec[fields[i].ident] # None

\* C2: after create(r, world) the new entity carries exactly the value of every
\* required field and the inner value of every Some optional field; the component
\* of a None optional field and every component outside the schema are absent.
C2_CreateAttachesExactly ==
    last.op = "create" =>
        /\ last.res.entity \in world.alive
        /\ \A i \in Positions(fields) :
              Stored(world, fields[i].ty, last.res.entity)
                  = AsStored(fields[i], last.rec[fields[i].ident])
        /\ \A ty \in Registered \ SchemaTypes(fields) :
              Stored(world, ty, last.res.entity) = None

C2_Witness ==
    /\ last.op = "create"
    /\ \E i \in Optional(fields) : last.rec[fields[i].ident] = None

\* C3: first_from_world returns None iff no entity carries every required
\* component; otherwise it returns the first, in join order, of the entities that do.
C3_FirstMatchRequired ==
    last.op = "first_from_world" =>
        LET matching == {e \in Entities : Qualifies(world, e)}
        IN  /\ last.res.kind \in {"None", "Some"}
            /\ last.res.kind = "None" <=> matching = {}
            /\ last.res.kind = "Some" =>
                  /\ last.res.entity \in matching
                  /\ \A e \in matching : last.res.entity <= e

C3_Witness ==
    /\ last.op = "first_from_world"
    /\ last.res.kind = "Some"
    /\ last.res.entity = 2
    /\ 1 \in world.alive
    /\ \E i \in Positions(fields) : Stored(world, fields[i].ty, 1) # None

\* C4: optional fields never exclude a candidate of first_from_world: the first
\* entity carrying every required component is returned whether or not it has the
\* optional components, each optional field being None when its component is
\* absent and Some(value) when it is present.
C4_FirstMatchOptional ==
    last.op = "first_from_world" =>
        \A e \in Entities :
            (Qualifies(world, e) /\ \A x \in 1..(e - 1) : ~Qualifies(world, x)) =>
                /\ last.res.kind = "Some"
                /\ last.res.entity = e
                /\ \A i \in Optional(fields) :
                      last.res.rec[fields[i].ident] = Stored(world, fields[i].ty, e)

C4_Witness ==
    /\ last.op = "first_from_world"
    /\ last.res.kind = "Some"
    /\ last.res.entity = 1
    /\ \E i \in Optional(fields) :
          /\ last.res.rec[fields[i].ident] = None
          /\ Stored(world, fields[i].ty, 2) # None
    /\ Qualifies(world, 2)

\* C5: from_world panics, returning no record, exactly when a required
\* component is absent for the entity.
C5_LoadPanicsIffRequiredMissing ==
    last.op = "from_world" =>
        /\ last.res.kind \in {"Panic", "Record"}
        /\ last.res.kind = "Panic" <=>
              \E i \in Required(fields) : Stored(world, fields[i].ty, last.entity) = None
        /\ last.res.kind = "Panic" => last.res.rec = NoRecord

C5_Witness ==
    /\ last.op = "from_world"
    /\ last.res.kind = "Panic"
    /\ \E i \in Required(fields) : Stored(world, fields[i].ty, last.entity) # None
    /\ \E i \in Optional(fields) : Stored(world, fields[i].ty, last.entity) # None

\* C6: the record from_world returns holds, for every field, the component now
\* stored for the entity (its value for a required field, Some(value) or None for
\* an optional one), and an absent optional component never makes it fail.
C6_LoadReturnsStored ==
    last.op = "from_world" =>
        /\ last.res.kind = "Record" =>
              \A i \in Positions(fields) :
                  AsStored(fields[i], last.res.rec[fields[i].ident])
                      = Stored(world, fields[i].ty, last.entity)
        /\ (\A i \in Required(fields) : Stored(world, fields[i].ty, last.entity) # None)
              => last.res.kind = "Record"

C6_Witness ==
    /\ last.op = "from_world"
    /\ last.res.kind = "Record"
    /\ last.entity = 2
    /\ \E i \in Optional(fields) : last.res.rec[fields[i].ident] = Some(2)
    /\ \E i \in Optional(fields) : Stored(world, fields[i].ty, 1) = None

\* C7: after update(r, world, entity) returns Ok, from_world on the entity returns
\* a record equal to r.
C7_UpdateThenLoad ==
    (last.op = "update" /\ last.res.kind = "Ok") =>
        from_world(fields, last.entity, world)
            = Result("Record", last.entity, last.rec, <<>>)

C7_Witness ==
    /\ last.op = "update"
    /\ last.res.kind = "Ok"
    /\ last.entity = 2
    /\ \E i \in Optional(fields) : last.rec[fields[i].ident] = Some(2)
    /\ \E i \in Required(fields) :
          Stored(world, fields[i].ty, 1) # Stored(world, fields[i].ty, 2)

\* C8: update with an optional field set to None removes that component: once the
\* field's fragment has run the component is absent and from_world gives None for
\* the field; the removal never fails, so an update fails only at an insert.
C8_UpdateNoneRemoves ==
    last.op = "update" =>
        /\ \A i \in Optional(fields) :
              (last.rec[fields[i].ident] = None /\ i <= Len(last.calls)) =>
                  /\ last.calls[i] = Call("remove", fields[i].ty)
                  /\ Stored(world, fields[i].ty, last.entity) = None
                  /\ last.res.kind = "Ok" =>
                        from_world(fields, last.entity, world).rec[fields[i].ident] = None
        /\ last.res.kind = "Err" => last.calls[Len(last.calls)].op = "insert"
        /\ last.entity \in world.alive => last.res.kind = "Ok"

C8_Witness ==
    /\ last.op = "update"
    /\ last.res.kind = "Ok"
    /\ \E i \in Optional(fields) : last.rec[fields[i].ident] = None

\* C9: update, whether it succeeds or fails, leaves every component of the entity
\* whose type is not a payload type of the schema as it was.
C9_UpdateKeepsOtherComponents ==
    [][last'.op = "update" =>
          \A ty \in Registered \ SchemaTypes(fields) :
              Stored(world', ty, last'.entity) = Stored(world, ty, last'.entity)]_vars

C9_Witness ==
    /\ last.op = "update"
    /\ last.res.kind = "Ok"
    /\ \E ty \in Registered \ SchemaTypes(fields) : Stored(world, ty, last.entity) # None

\* The storage call the fragment of field i makes for record r.
FragmentCall(fs, r, i) ==
    Call(IF fs[i].is_optional /\ r[fs[i].ident] = None THEN "remove" ELSE "insert", fs[i].ty)

C11_UpdateOkOnlyIfRequiredInserted ==
    last.op = "update" =>
        /\ last.res.kind = "Ok" =>
              \A i \in Required(fields) :
                  /\ last.entity \in world.alive
                  /\ last.calls[i] = Call("insert", fields[i].ty)
                  /\ Stored(world, fields[i].ty, last.entity)
                        = Some(last.rec[fields[i].ident])
        /\ (last.entity \notin world.alive /\ Required(fields) # {}) => last.res.kind = "Err"

C11_Witness ==
    /\ last.op = "update"
    /\ last.res.kind = "Err"
    /\ \E i \in Required(fields) : last.calls[Len(last.calls)] = Call("insert", fields[i].ty)

\* C12: remove on an entity carrying every required component returns the value
\* each component of the group had just before (Some(value) for a present optional
\* one), and afterwards no component of the group is present on the entity.
C12_RemoveReturnsPriorValues ==
    [][(last'.op = "remove" /\ Qualifies(world, last'.entity)) =>
          /\ last'.res.kind = "Record"
          /\ \A i \in Positions(fields) :
                /\ AsStored(fields[i], last'.res.rec[fields[i].ident])
                      = Stored(world, fields[i].ty, last'.entity)
                /\ Stored(world', fields[i].ty, last'.entity) = None]_vars

C12_Witness ==
    /\ last.op = "remove"
    /\ last.res.kind = "Record"
    /\ last.entity = 2
    /\ \E i \in Optional(fields) : last.res.rec[fields[i].ident] = Some(2)
    /\ \A i \in Positions(fields) : Stored(world, fields[i].ty, 2) = None

\* C13: remove leaves every component of the entity whose type is not a payload
\* type of the schema present and unchanged.
C13_RemoveKeepsOtherComponents ==
    [][last'.op = "remove" =>
          \A ty \in Registered \ SchemaTypes(fields) :
              Stored(world', ty, last'.entity) = Stored(world, ty, last'.entity)]_vars

C13_Witness ==
    /\ last.op = "remove"
    /\ last.res.kind = "Record"
    /\ \E ty \in Registered \ SchemaTypes(fields) : Stored(world, ty, last.entity) # None

\* C14: remove panics, returning no record, whenever a required component is
\* absent for the entity, and the panic message names the missing payload type.
C14_RemovePanicsIfRequiredMissing ==
    [][last'.op = "remove" =>
          LET missing == {i \in Required(fields) :
                            Stored(world, fields[i].ty, last'.entity) = None}
          IN  /\ last'.res.kind \in {"Panic", "Record"}
              /\ last'.res.kind = "Panic" <=> missing # {}
              /\ last'.res.kind = "Panic" =>
                    /\ last'.res.rec = NoRecord
                    /\ Len(last'.res.msg) = 3
                    /\ \E i \in missing : last'.res.msg[2] = fields[i].ty]_vars

C14_Witness ==
    /\ last.op = "remove"
    /\ last.res.kind = "Panic"
    /\ last.entity \in world.alive
    /\ Len(last.calls) > 1

\* C15: remove does not panic when only an optional component is absent: it
\* returns a record whose optional field is None and whose required fields hold
\* the values removed.
C15_RemoveOptionalAbsent ==
    [][(last'.op = "remove" /\ Qualifies(world, last'.entity)) =>
          \A i \in Optional(fields) :
              Stored(world, fields[i].ty, last'.entity) = None =>
                  /\ last'.res.kind = "Record"
                  /\ last'.res.rec[fields[i].ident] = None
                  /\ \A j \in Required(fields) :
                        Some(last'.res.rec[fields[j].ident])
                            = Stored(world, fields[j].ty, last'.entity)]_vars

C15_Witness ==
    /\ last.op = "remove"
    /\ last.res.kind = "Record"
    /\ \E i \in Optional(fields) : last.res.rec[fields[i].ident] = None

\* The Option pattern, read off the declared type: a path type of a single segment
\* named Option, no leading separator, angle-bracketed arguments without turbofish,
\* exactly one argument, and that argument a type.
IsOptionPattern(ty) ==
    /\ ty.kind = "Path"
    /\ ~ty.leading_colon
    /\ Len(ty.segments) = 1
    /\ ty.segments[1].ident = "Option"
    /\ ty.segments[1].arguments.kind = "AngleBracketed"
    /\ ~ty.segments[1].arguments.colon2_token
    /\ Len(ty.segments[1].arguments.args) = 1
    /\ ty.segments[1].arguments.args[1].kind = "Type"

InnerType(ty) == ty.segments[1].arguments.args[1].ty

\* C17: classification is total and exact: every field of a struct the derive
\* accepts is classified, keeping its name; it is optional with the inner type as
\* payload if and only if its declared type is the Option pattern, and otherwise
\* (std::option::Option<T> included) required with the declared type as payload.
C17_ClassificationExact ==
    (last.op = "derive" /\ derived.error = None) =>
        /\ Len(fields) = Len(input.named)
        /\ \A i \in 1..Len(input.named) :
              LET ty == input.named[i].ty
              IN  /\ fields[i].ident = input.named[i].ident
                  /\ fields[i].is_optional <=> IsOptionPattern(ty)
                  /\ IsOptionPattern(ty) => fields[i].ty = InnerType(ty)
                  /\ ~IsOptionPattern(ty) => fields[i].ty = ty

\* A field declared std::option::Option<Animation> has been classified required.
C17_Witness ==
    /\ last.op = "derive"
    /\ derived.error = None
    /\ \E i \in 1..Len(input.named) :
          LET ty == input.named[i].ty
          IN  /\ ty.kind = "Path" /\ ~ty.qself /\ ~ty.leading_colon
              /\ Len(ty.segments) = 3
              /\ ty.segments[3] = OptionOf(Animation).segments[1]
              /\ ~fields[i].is_optional
              /\ fields[i].ty = ty

\* C18: the derive produces an implementation, with all five operations, if and
\* only if the item is a struct with named fields and at least one field; a
\* named-field struct without fields gets only the "at least one field" error,
\* every other item only the "Only structs with named fields" error, and an
\* error comes with no operation at all.
C18_SchemaDefinitionErrors ==
    last.op = "derive" =>
        LET named_struct == input.data = "Struct" /\ input.shape = "Named"
        IN  /\ derived.error = None <=> (named_struct /\ Len(input.named) >= 1)
            /\ derived.error = None =>
                  /\ derived.methods
                        = {"first_from_world", "from_world", "create", "update", "remove"}
                  /\ Len(derived.fields) = Len(input.named)
            /\ derived.error # None => derived.methods = {} /\ derived.fields = <<>>
            /\ (named_struct /\ Len(input.named) = 0) =>
                  derived.error
                    = Some("struct must have at least one field to derive ComponentGroup")
            /\ ~named_struct =>
                  derived.error = Some("Only structs with named fields are supported")

\* The derive has rejected a named-field struct without fields.
C18_Witness ==
    /\ last.op = "derive"
    /\ input = NamedStruct(<<>>)
    /\ derived.error # None
    /\ derived.methods = {}

\* What first_from_world has to return in w, read off the storages: None when no
\* entity qualifies, else the qualifying entity of least index with, for every
\* field, the value stored for it.
IsFirstMatch(w, res) ==
    LET matching == {e \in Entities : Qualifies(w, e)}
    IN  IF matching = {}
        THEN res.kind = "None" /\ res.entity = NoEntity /\ res.rec = NoRecord
        ELSE /\ res.kind = "Some"
             /\ res.entity \in matching
             /\ \A x \in matching : res.entity <= x
             /\ DOMAIN res.rec = Idents(fields)
             /\ \A i \in Positions(fields) :
                   AsStored(fields[i], res.rec[fields[i].ident])
                       = Stored(w, fields[i].ty, res.entity)

C20_ExactlyOneExposed ==
    derived.error = None => "exactly_one" \in derived.methods

\* Every entity of w reads the same through from_world in w and in v.
SameGroups(w, v) ==
    \A e \in Entities : from_world(fields, e, w) = from_world(fields, e, v)

\* C16: isolation across Worlds: moving a group (from_world or first_from_world
\* on world, then create on world2) leaves world as it was and gives the new
\* entity of world2 the schema's components as stored in world and no other
\* component; afterwards a mutation of world2 leaves every component of world
\* unchanged, from_world on the original entity returning the same record, and a
\* mutation of world leaves world2 unchanged.
C16_WorldsIsolated ==
    [][/\ last'.op = "move" =>
             /\ world' = world
             /\ last'.res.kind = "Entity"
             /\ last'.res.entity \in world2'.alive \ world2.alive
             /\ \A ty \in Registered :
                   Stored(world2', ty, last'.res.entity)
                       = IF ty \in SchemaTypes(fields)
                         THEN Stored(world, ty, last'.entity)
                         ELSE None
       /\ (world2.next > 1
              /\ last'.op \in {"world2.insert", "world2.remove_component", "world2.update"}) =>
             /\ world' = world
             /\ SameGroups(world', world)
       /\ (world2.next > 1
              /\ last'.op \in {"world.insert", "world.remove_component", "world.update"}) =>
             /\ world2' = world2
             /\ SameGroups(world2', world2)]_vars

\* A group has been moved and world2 modified since: the entity of world still has
\* its NotInGroup, the one of world2 has none, and a component of the schema now
\* differs between them.
C16_Witness ==
    /\ last.op \in {"world2.insert", "world2.update"}
    /\ 1 \in world.alive /\ 1 \in world2.alive
    /\ Stored(world, NotInGroup, 1) # None
    /\ Stored(world2, NotInGroup, 1) = None
    /\ \E ty \in SchemaTypes(fields) :
          /\ Stored(world, ty, 1) # None
          /\ Stored(world2, ty, 1) # None
          /\ Stored(world2, ty, 1) # Stored(world, ty, 1)

\* C21 as stated: when update follows update on the same entity and one optional
\* field is None in both records, the second call returns no error and leaves
\* storage as the first call left it.
C21_UpdateNoneIdempotent ==
    [][(/\ last.op = "update" /\ last'.op = "update"
        /\ last'.entity = last.entity
        /\ \E i \in Optional(fields) :
              last.rec[fields[i].ident] = None /\ last'.rec[fields[i].ident] = None) =>
          /\ last'.res.kind = "Ok"
          /\ world'.storage = world.storage]_vars

\* C21, amended: when update follows update on the same entity, the component of
\* an optional field that is None in both records is absent after each call, and
\* on a live entity the second call returns Ok; when moreover the two records are
\* equal, the second call returns what the first returned and leaves the World as
\* the first call left it.
C21_UpdateNoneTwice ==
    [][(last.op = "update" /\ last'.op = "update" /\ last'.entity = last.entity) =>
          /\ \A i \in Optional(fields) :
                (last.rec[fields[i].ident] = None /\ last'.rec[fields[i].ident] = None) =>
                    /\ Stored(world, fields[i].ty, last.entity) = None
                    /\ Stored(world', fields[i].ty, last.entity) = None
                    /\ last.entity \in world.alive => last'.res.kind = "Ok"
          /\ (/\ last'.rec = last.rec
              /\ \E i \in Optional(fields) : last.rec[fields[i].ident] = None) =>
                /\ last'.res = last.res
                /\ world' = world
          /\ (last.entity \notin world.alive /\ Required(fields) # {}) =>
                last.res.kind = "Err" /\ last'.res.kind = "Err"]_vars

\* update has returned Ok for a record whose optional field is None, and the
\* component is absent.
C21_Witness ==
    /\ last.op = "update"
    /\ last.res.kind = "Ok"
    /\ \E i \in Optional(fields) :
          /\ last.rec[fields[i].ident] = None
          /\ Stored(world, fields[i].ty, last.entity) = None
    /\ \E i \in Required(fields) :
          Stored(world, fields[i].ty, last.entity) = Some(last.rec[fields[i].ident])

\* C22: first_from_world and from_world are read-only: a call to either, a
\* from_world that panics on a missing required component included, leaves the
\* entities and every component of every entity unchanged.
C22_ReadsLeaveWorldUnchanged ==
    [][last'.op \in {"first_from_world", "from_world"} =>
          /\ world'.alive = world.alive
          /\ world'.next = world.next
          /\ \A ty \in Registered, e \in Entities :
                Stored(world', ty, e) = Stored(world, ty, e)]_vars

\* from_world has panicked on a live entity that still carries a component of
\* the schema.
C22_Witness ==
    /\ last.op = "from_world"
    /\ last.res.kind = "Panic"
    /\ last.entity \in world.alive
    /\ \E ty \in SchemaTypes(fields) : Stored(world, ty, last.entity) # None

\* The words of the literal parts of a panic message.
Words(text) ==
    CASE text = "expected a " -> {"expected", "a"}
      [] text = "bug: expected a " -> {"bug", "expected", "a"}
      [] text = " component to be present" -> {"component", "to", "be", "present"}
      [] OTHER -> {}

\* C23: when from_world panics because the component of a required field is
\* missing, its message names the missing payload type and contains the word
\* "bug".
C23_LoadDiagnosticSaysBug ==
    (last.op = "from_world" /\ last.res.kind = "Panic") =>
        /\ Len(last.res.msg) = 3
        /\ \E i \in Required(fields) :
              /\ Stored(world, fields[i].ty, last.entity) = None
              /\ last.res.msg[2] = fields[i].ty
        /\ "bug" \in Words(last.res.msg[1]) \cup Words(last.res.msg[3])

\* C24: no operation requests conflicting access within one call: the handles
\* fetched by one call of first_from_world, from_world, update or remove never
\* hold a write handle together with another handle, read or write, for the same
\* component type, whatever the struct, two fields of one payload type included.
C24_NoConflictingAccess ==
    last.op \in {"first_from_world", "from_world", "update", "remove"} =>
        \A i \in 1..Len(last.calls), j \in 1..Len(last.calls) :
            (i # j /\ last.calls[i].ty = last.calls[j].ty) =>
                last.calls[i].op # "WriteStorage" /\ last.calls[j].op # "WriteStorage"

\* C25: create always succeeds and returns a fresh entity: the entity returned
\* was neither alive nor allocated before the call and is alive after it, so it
\* differs from every entity created earlier; from_world on it returns the record
\* created, and from_world on every earlier entity returns what it returned before.
C25_CreateReturnsFreshEntity ==
    [][last'.op = "create" =>
          /\ last'.res.kind = "Entity"
          /\ last'.res.entity \notin world.alive
          /\ last'.res.entity \notin 1..(world.next - 1)
          /\ world'.alive = world.alive \cup {last'.res.entity}
          /\ from_world(fields, last'.res.entity, world').kind = "Record"
          /\ from_world(fields, last'.res.entity, world').rec = last'.rec
          /\ \A e \in 1..(world.next - 1) :
                from_world(fields, e, world') = from_world(fields, e, world)]_vars

\* A second entity has been created, and the two entities hold different values.
C25_Witness ==
    /\ last.op = "create"
    /\ last.res.entity = 2
    /\ world.alive = {1, 2}
    /\ Qualifies(world, 1)
    /\ \E i \in Required(fields) :
          Stored(world, fields[i].ty, 1) # Stored(world, fields[i].ty, 2)

\* The first field, in declaration order, that is required and whose component
\* entity e lacks in w.
FirstMissing(w, e) ==
    CHOOSE k \in Required(fields) :
        /\ Stored(w, fields[k].ty, e) = None
        /\ \A i \in Required(fields) : Stored(w, fields[i].ty, e) = None => k <= i

\* C26: remove works in field order and is not atomic: when it panics on the
\* missing component of a required field, the components of the fields declared
\* before that field are already detached, no record being returned, and those
\* of the fields declared after it are attached as before.
C26_RemoveNotAtomic ==
    [][(last'.op = "remove" /\ last'.res.kind = "Panic") =>
          LET e == last'.entity
              k == FirstMissing(world, e)
          IN  /\ last'.res.rec = NoRecord
              /\ last'.calls = [i \in 1..k |-> Call("remove", fields[i].ty)]
              /\ \A i \in 1..(k - 1) : Stored(world', fields[i].ty, e) = None
              /\ \A i \in (k + 1)..Len(fields) :
                    Stored(world', fields[i].ty, e) = Stored(world, fields[i].ty, e)]_vars

\* remove has panicked at the second field: the first field's storage was called
\* and holds nothing for the entity, and a later field's component is attached.
C26_Witness ==
    /\ last.op = "remove"
    /\ last.res.kind = "Panic"
    /\ last.entity \in world.alive
    /\ Len(last.calls) = 2
    /\ Stored(world, fields[1].ty, last.entity) = None
    /\ Stored(world, fields[3].ty, last.entity) # None

\* The fields for which update(rec) calls insert: the required ones and the
\* optional ones whose value is Some.
Inserted(rec) ==
    {i \in Positions(fields) : ~fields[i].is_optional \/ rec[fields[i].ident] # None}

\* C27: in update the failure of an insert is propagated for an optional field
\* whose value is Some exactly as for a required field: update returns Err at the
\* first insert that fails and skips every later field.  Hence update returns Ok
\* if and only if every insert it attempts succeeds, and an update of a group
\* whose fields are all optional and all None returns Ok even on an entity for
\* which every insert would fail.
C27_UpdateOkIffInsertsSucceed ==
    [][last'.op = "update" =>
          LET e == last'.entity
              failing == IF insert_ok(world, e) THEN {} ELSE Inserted(last'.rec)
          IN  /\ last'.res.kind \in {"Ok", "Err"}
              /\ last'.res.kind = "Ok" <=> failing = {}
              /\ last'.res.kind = "Ok" => Len(last'.calls) = Len(fields)
              /\ last'.res.kind = "Err" =>
                    \E k \in failing :
                        /\ \A j \in failing : k <= j
                        /\ Len(last'.calls) = k
                        /\ last'.calls[k] = Call("insert", fields[k].ty)
                        /\ \A j \in 1..(k - 1) : last'.calls[j] = Call("remove", fields[j].ty)]_vars

\* update of a group without required fields, every field None, has returned Ok
\* on a destroyed entity.
C27_Witness ==
    /\ last.op = "update"
    /\ last.res.kind = "Ok"
    /\ last.entity \notin world.alive
    /\ Required(fields) = {}
    /\ Inserted(last.rec) = {}

\* C28: first_from_world and from_world agree: when first_from_world returns
\* Some((e, r)), from_world on e in the same World does not panic and returns a
\* record equal to r.
C28_FirstMatchAgreesWithLoad ==
    (last.op = "first_from_world" /\ last.res.kind = "Some") =>
        /\ from_world(fields, last.res.entity, world).kind = "Record"
        /\ from_world(fields, last.res.entity, world).rec = last.res.rec

\* first_from_world has returned the second entity with a value in its optional
\* field.
C28_Witness ==
    /\ last.op = "first_from_world"
    /\ last.res.kind = "Some"
    /\ last.res.entity = 2
    /\ \E i \in Optional(fields) : last.res.rec[fields[i].ident] = Some(2)

\* C29: create followed by remove is a round trip: remove on the entity create
\* has just returned does not panic and returns a record equal to the one
\* created; afterwards the entity carries no component of the schema and
\* first_from_world does not return it.
C29_CreateRemoveRoundTrip ==
    [][(last.op = "create" /\ last'.op = "remove" /\ last'.entity = last.res.entity) =>
          /\ last'.res.kind = "Record"
          /\ last'.res.rec = last.rec
          /\ \A ty \in SchemaTypes(fields) : Stored(world', ty, last'.entity) = None
          /\ first_from_world(fields, world').entity # last'.entity]_vars

\* remove has returned a record with a value in its optional field, and the
\* entity, still alive, carries no component of the schema.
C29_Witness ==
    /\ last.op = "remove"
    /\ last.res.kind = "Record"
    /\ last.entity \in world.alive
    /\ \E i \in Optional(fields) : last.res.rec[fields[i].ident] # None
    /\ \A ty \in SchemaTypes(fields) : Stored(world, ty, last.entity) = None

\* C30: the mutating operations touch only their target entity: create changes
\* no component of an entity that existed before, and update and remove, whether
\* they complete or fail, change no component, of the schema or not, of any
\* entity other than the one they are given.
C30_OnlyTargetEntityChanges ==
    [][last'.op \in {"create", "update", "remove"} =>
          LET target == IF last'.op = "create" THEN last'.res.entity ELSE last'.entity
          IN  \A x \in Entities \ {target} :
                  /\ x \in world'.alive <=> x \in world.alive
                  /\ \A ty \in Registered : Stored(world', ty, x) = Stored(world, ty, x)]_vars

\* remove has panicked on one entity while another carries the whole group and
\* a component outside the schema.
C30_Witness ==
    /\ last.op = "remove"
    /\ last.res.kind = "Panic"
    /\ \E x \in world.alive \ {last.entity} :
          /\ Qualifies(world, x)
          /\ \A i \in Optional(fields) : Stored(world, fields[i].ty, x) # None
          /\ Stored(world, NotInGroup, x) # None
====
